---- MODULE Spec2Model ----
(***************************************************************************)
(* Model of cronjob/ineo_labeling/ineo_labeling.py: the mapping parser,    *)
(* the per-record resolver (_is_ineo_record) and the fetch / label /       *)
(* update pipeline of main().                                              *)
(*                                                                         *)
(* Python values are encoded homogeneously so that TLC can compare them:   *)
(*   - a str-or-None value is a TLA+ string, None being the string "None"; *)
(*   - a bool-or-None value is one of "True", "False", "None";             *)
(*   - text that int() parses is a sequence of one-character strings;      *)
(*   - a JSON value that may be an int or a str is a record [t, n, s].     *)
(***************************************************************************)
EXTENDS Integers, Sequences, FiniteSets, TLC

\* ------------------------------------------------------------------ bounds
\* Largest number of provider/root nodes in a mapping document.
MaxRules == 1
\* Largest level value carried by a record (levels are 0..MaxLevel).
MaxLevel == 1
\* Largest number of documents in the index.
MaxDocs == 3
\* Rows per page request: rows=10000 in fetch_solr_records, scaled down.
PageSize == 2
\* Largest number of nodes in a mapping document with several rules.
MaxNodes == 2

\* ------------------------------------------------------------ Python values
None == "None"

RECURSIVE LStrip(_)
\* str.strip(), left part: drop leading whitespace.
LStrip(s) == IF s # <<>> /\ Head(s) = " " THEN LStrip(Tail(s)) ELSE s

RECURSIVE RStrip(_)
\* str.strip(), right part: drop trailing whitespace.
RStrip(s) ==
    IF s # <<>> /\ s[Len(s)] = " " THEN RStrip(SubSeq(s, 1, Len(s) - 1)) ELSE s

DigitChars == <<"0", "1", "2", "3", "4", "5", "6", "7", "8", "9">>

IsDigit(c) == \E d \in 1..Len(DigitChars) : DigitChars[d] = c

DigitVal(c) == (CHOOSE d \in 1..Len(DigitChars) : DigitChars[d] = c) - 1

RECURSIVE DigitsVal(_)
\* Value of a non-empty sequence of decimal digits.
DigitsVal(s) ==
    IF s = <<>> THEN 0
    ELSE 10 * DigitsVal(SubSeq(s, 1, Len(s) - 1)) + DigitVal(s[Len(s)])

\* int(text): surrounding whitespace is ignored, one optional sign, then one
\* or more decimal digits; anything else (and text None, here <<>>) raises.
\* Digit-group underscores, which int() also accepts, are not in the texts.
\* The result is [ok |-> TRUE, val |-> n] or [ok |-> FALSE, val |-> 0].
PyInt(text) ==
    LET t    == RStrip(LStrip(text))
        sgn  == IF t # <<>> /\ Head(t) = "-" THEN -1 ELSE 1
        body == IF t # <<>> /\ Head(t) \in {"-", "+"} THEN Tail(t) ELSE t
    IN  IF body # <<>> /\ \A i \in 1..Len(body) : IsDigit(body[i])
        THEN [ok |-> TRUE, val |-> sgn * DigitsVal(body)]
        ELSE [ok |-> FALSE, val |-> 0]

RECURSIVE PyStr(_)
\* str(n) for n >= 0: the decimal digits of n.
PyStr(n) ==
    IF n < 10 THEN <<DigitChars[n + 1]>>
    ELSE Append(PyStr(n \div 10), DigitChars[(n % 10) + 1])

\* A JSON field value: absent/None, an int, or a str.
JNone == [t |-> "none", n |-> 0, s |-> <<>>]
JInt(n) == [t |-> "int", n |-> n, s |-> <<>>]
JStr(s) == [t |-> "str", n |-> 0, s |-> s]

\* Python's == between a JSON value and the int level of a rule: an int
\* equals an int of the same value; a str never equals an int.
PyEqInt(j, n) == j.t = "int" /\ j.n = n

\* ------------------------------------------------------ mapping document
\* One <provider> or <root> element.  name, profile, default: the attribute
\* or child text, None when the attribute or child is missing.  level: has
\* says whether the <level> child exists, text is its text.
ProfileIds == {"P1", "P2"}
LevelTexts == {<<"0">>, <<" ", "1">>, <<"x">>}

Elements ==
    [tag     : {"provider", "root"},
     name    : {"A", None},
     profile : {"P1", None},
     level   : {[has |-> FALSE, text |-> <<>>]}
                 \cup {[has |-> TRUE, text |-> t] : t \in LevelTexts},
     default : {"true", "false", None}]

\* The <datasets> root: its default attribute and its children in order.
MappingTrees ==
    [default  : {"true", "false", None},
     children : UNION {[1..n -> Elements] : n \in 0..MaxRules}]

\* mapping_tree.findall(tag): the children with that tag, in document order.
findall(tree, tag) ==
    SelectSeq(tree.children, LAMBDA e : e.tag = tag)

\* ------------------------------------------------- ineo_classes.Providers
EmptyProviders == [providers |-> <<>>, provider_keys |-> <<>>, default |-> None]

\* Providers.get_provider(name): the first rule with that name.
get_provider(mapping, provider_name) ==
    LET i == CHOOSE k \in 1..Len(mapping.providers) :
                 /\ mapping.providers[k].name = provider_name
                 /\ \A j \in 1..(k - 1) : mapping.providers[j].name # provider_name
    IN  mapping.providers[i]

\* ------------------------------------------------------------ the parser
\* _add_provider raises when int(level_node.text) raises.
AddProviderRaises_Never(provider) == FALSE

AddProviderRaises(provider) ==
    provider.level.has /\ ~PyInt(provider.level.text).ok

\* The Provider object _add_provider builds from one element.
ProviderOf(provider) ==
    [name    |-> provider.name,
     profile |-> provider.profile,
     level   |-> IF provider.level.has
                 THEN [has |-> TRUE, val |-> PyInt(provider.level.text).val]
                 ELSE [has |-> FALSE, val |-> 0],
     default |-> IF provider.default = None THEN None
                 ELSE IF provider.default = "true" THEN "True" ELSE "False"]

\* _add_provider(providers, provider): append the rule and its key.
_add_provider(providers, provider) ==
    [providers EXCEPT
        !.providers     = Append(@, ProviderOf(provider)),
        !.provider_keys = Append(@, provider.name)]

RECURSIVE AddAll(_, _)
\* for provider in nodes: _add_provider(providers, provider)
AddAll(providers, nodes) ==
    IF nodes = <<>> THEN providers
    ELSE AddAll(_add_provider(providers, Head(nodes)), Tail(nodes))

\* The order in which parse_mapping_file adds the elements.
ParseOrder_DocumentOrder(tree) == tree.children

ParseOrder_RootsFirst(tree) == findall(tree, "root") \o findall(tree, "provider")

ParseOrder(tree) == findall(tree, "provider") \o findall(tree, "root")

\* parse_mapping_file raises when one of its _add_provider calls raises.
ParseRaises(tree) ==
    \E i \in 1..Len(ParseOrder(tree)) : AddProviderRaises(ParseOrder(tree)[i])

\* providers.default as parse_mapping_file sets it from the root attribute.
RootDefault_AnyText(tree) == IF tree.default # None THEN "True" ELSE "False"

RootDefault(tree) == IF tree.default = "true" THEN "True" ELSE "False"

\* parse_mapping_file(mapping_tree), when it does not raise.  Its first loop
\* (over findall("provider") or findall("root")) only binds locals and has
\* no effect.
parse_mapping_file(tree) ==
    AddAll([EmptyProviders EXCEPT !.default = RootDefault(tree)],
           ParseOrder(tree))

\* ------------------------------------------------------------ the resolver
\* An index document as _is_ineo_record reads it.
IndexDocs ==
    [dataProvider        : {"A", "C", None},
     _componentProfileId : ProfileIds \cup {None},
     _hierarchyWeight    : {JNone} \cup {JInt(n) : n \in 0..MaxLevel}
                             \cup {JStr(PyStr(n)) : n \in 0..MaxLevel}]

\* The value of doc before any record was handed over.
NoDoc ==
    [dataProvider |-> None, _componentProfileId |-> None,
     _hierarchyWeight |-> JNone]

\* provider_name in mapping.provider_keys
InKeys(mapping, provider_name) ==
    \E k \in 1..Len(mapping.provider_keys) :
        mapping.provider_keys[k] = provider_name

\* provider_name is None: the record has no dataProvider.
NameMissing_Never(provider_name) == FALSE

NameMissing(provider_name) == provider_name = None

\* The profile test: the record has a profile and it equals the rule's.
ProfileMatch_DefaultFirst(provider_profile, rule) ==
    /\ provider_profile # None
    /\ provider_profile = rule.profile
    /\ rule.default # "False"

ProfileMatch(provider_profile, rule) ==
    provider_profile # None /\ provider_profile = rule.profile

\* The level test: the record has a level and it == the rule's level (None
\* when the rule has none, an int otherwise).
LevelMatch(provider_level, rule) ==
    /\ provider_level.t # "none"
    /\ rule.level.has
    /\ PyEqInt(provider_level, rule.level.val)

\* Neither test matched: the rule's default when it has one, else False.
RuleFallback_GlobalForDefault(rule, mapping) ==
    IF rule.default # None THEN mapping.default ELSE "False"

RuleFallback_GlobalForNone(rule, mapping) ==
    IF rule.default # None THEN rule.default ELSE mapping.default

RuleFallback(rule, mapping) ==
    IF rule.default # None THEN rule.default ELSE "False"

\* _is_ineo_record(doc, mapping): "True", "False", or "ValueError" when the
\* function raises.
_is_ineo_record(doc, mapping) ==
    LET provider_name    == doc.dataProvider
        provider_profile == doc._componentProfileId
        provider_level   == doc._hierarchyWeight
    IN  IF NameMissing(provider_name) THEN "ValueError"
        ELSE IF InKeys(mapping, provider_name)
        THEN LET rule == get_provider(mapping, provider_name)
             IN  IF ProfileMatch(provider_profile, rule) THEN "True"
                 ELSE IF LevelMatch(provider_level, rule) THEN "True"
                 ELSE RuleFallback(rule, mapping)
        ELSE mapping.default

\* --------------------------------------------------------- configuration
\* The environment variables the module reads with os.getenv at import.
EnvNames == {"INEO_MAPPING", "SOLR_URL", "SOLR_USER", "SOLR_PASSWORD"}

\* The environments a run starts in: every variable set, or one of them unset.
RunEnvs == {EnvNames} \cup {EnvNames \ {v} : v \in EnvNames}

\* --------------------------------------------------------------- the state
VARIABLES
    mapping_tree,   \* the mapping document behind INEO_MAPPING
    providers,      \* the Providers object built by parse_mapping_file
    rpc,            \* position of the parse-then-resolve client
    doc,            \* the record handed to _is_ineo_record
    result,         \* what _is_ineo_record returned or raised
    pc,             \* position of main()
    error,          \* the exception that ended main(), None if none
    index,          \* the documents of the index; a document's id is its position
    total_records,  \* numFound as fetch_solr_records read it
    pageFut,        \* state of the future of each page request
    joined,         \* the futures whose result() the main thread has taken
    records,        \* ids of the documents merged by fetch_solr_records
    payload,        \* the update documents built by _label_ineo_records
    updFut,         \* state of the future of each update request
    ineo_record,    \* the ineo_record field of each document in the index
    env,            \* the environment variables that are set
    net             \* the kinds of HTTP request sent so far

resolveVars == <<rpc, doc, result>>
runVars == <<pc, error, index, total_records, pageFut, joined, records,
             payload, updFut, ineo_record, env, net>>
vars == <<mapping_tree, providers, resolveVars, runVars>>

\* The pipeline variables before main() has run.
RunIdle ==
    /\ pc = "idle"
    /\ error = None
    /\ index = <<>>
    /\ total_records = 0
    /\ pageFut = <<>>
    /\ joined = {}
    /\ records = <<>>
    /\ payload = <<>>
    /\ updFut = <<>>
    /\ ineo_record = <<>>
    /\ env = {}
    /\ net = {}

\* ------------------------------------- parse, then resolve single records
InitResolve ==
    /\ mapping_tree \in MappingTrees
    /\ providers = EmptyProviders
    /\ rpc = "parse"
    /\ doc = NoDoc
    /\ result = None
    /\ RunIdle

\* providers = parse_mapping_file(mapping_tree)
RParse ==
    /\ rpc = "parse"
    /\ IF ParseRaises(mapping_tree)
       THEN /\ rpc' = "parse_error"
            /\ UNCHANGED providers
       ELSE /\ rpc' = "resolve"
            /\ providers' = parse_mapping_file(mapping_tree)
    /\ UNCHANGED <<mapping_tree, doc, result, runVars>>

\* ineo_record = _is_ineo_record(doc, mapping), for any record d.
RResolve ==
    /\ rpc = "resolve"
    /\ \E d \in IndexDocs :
          /\ doc' = d
          /\ result' = _is_ineo_record(d, providers)
    /\ rpc' = "resolved"
    /\ UNCHANGED <<mapping_tree, providers, runVars>>

NextResolve == RParse \/ RResolve

SpecResolve == InitResolve /\ [][NextResolve]_vars

\* ---------------------------- registries of several rules, then resolve
\* Elements with no criterion, with one criterion (a profile, a level or a
\* default), or with all three.
RegistryElements ==
    {e \in Elements :
        /\ e.level.has => e.level.text = <<" ", "1">>
        /\ \/ Cardinality({a \in {"profile", "level", "default"} :
                   \/ a = "profile" /\ e.profile # None
                   \/ a = "level" /\ e.level.has
                   \/ a = "default" /\ e.default # None}) <= 1
           \/ e.profile # None /\ e.level.has /\ e.default = "false"}

\* Mapping documents of up to MaxNodes such elements, the root without a
\* default attribute.
RegistryTrees ==
    [default  : {None},
     children : UNION {[1..n -> RegistryElements] : n \in 0..MaxNodes}]

InitRegistry ==
    /\ mapping_tree \in RegistryTrees
    /\ providers = EmptyProviders
    /\ rpc = "parse"
    /\ doc = NoDoc
    /\ result = None
    /\ RunIdle

SpecRegistry == InitRegistry /\ [][NextResolve]_vars

\* ------------------------------------------------------- the run of main()
\* The mapping documents and index contents a run of main() starts from: a
\* provider or root rule named "A" with profile "P1" whose level, when
\* present, does not parse; documents of provider "A" with that profile, of
\* the unregistered provider "C", and without dataProvider.
RunElements ==
    {e \in Elements :
        /\ e.name = "A" /\ e.profile = "P1"
        /\ e.default = None
        /\ e.level.has => e.level.text = <<"x">>}

RunTrees ==
    {t \in MappingTrees :
        /\ t.default # "false"
        /\ \A i \in 1..Len(t.children) : t.children[i] \in RunElements}

RunDocs ==
    {d \in IndexDocs :
        /\ d._hierarchyWeight = JNone
        /\ \/ d.dataProvider = "A" /\ d._componentProfileId = "P1"
           \/ d.dataProvider = "C" /\ d._componentProfileId = None
           \/ d.dataProvider = None /\ d._componentProfileId = None}

Init ==
    /\ mapping_tree \in RunTrees
    /\ providers = EmptyProviders
    /\ rpc = "idle"
    /\ doc = NoDoc
    /\ result = None
    /\ pc = "fetch_mapping"
    /\ error = None
    /\ index \in UNION {[1..n -> RunDocs] : n \in 0..MaxDocs}
    /\ total_records = 0
    /\ pageFut = <<>>
    /\ joined = {}
    /\ records = <<>>
    /\ payload = <<>>
    /\ updFut = <<>>
    /\ ineo_record = [i \in 1..Len(index) |-> None]
    /\ env \in RunEnvs
    /\ net = {}

\* main() ends with an uncaught exception.
Raise(e) ==
    /\ pc' = "failed"
    /\ error' = e

\* requests refuses a URL built from None ("None", "None/select") with
\* MissingSchema before anything is sent.
UrlRefused(name) == name \notin env

\* mapping_tree = fetch_mapping_file(INEO_MAPPING): the GET succeeds, or
\* raise_for_status raises.
FetchMapping ==
    /\ pc = "fetch_mapping"
    /\ IF UrlRefused("INEO_MAPPING")
       THEN /\ Raise("MissingSchema")
            /\ UNCHANGED net
       ELSE /\ net' = net \cup {"mapping"}
            /\ \/ pc' = "parse" /\ UNCHANGED error
               \/ Raise("HTTPError")
    /\ UNCHANGED env
    /\ UNCHANGED <<mapping_tree, providers, resolveVars, index, total_records,
                   pageFut, joined, records, payload, updFut, ineo_record>>

\* providers = parse_mapping_file(mapping_tree)
ParseMapping ==
    /\ pc = "parse"
    /\ IF ParseRaises(mapping_tree)
       THEN /\ Raise("ValueError")
            /\ UNCHANGED providers
       ELSE /\ pc' = "count"
            /\ providers' = parse_mapping_file(mapping_tree)
            /\ UNCHANGED error
    /\ UNCHANGED <<mapping_tree, resolveVars, index, total_records, pageFut,
                   joined, records, payload, updFut, ineo_record, env, net>>

\* range(0, total_records, 10000): the number of page requests.
NumPages_Floor(total) == total \div PageSize

NumPages(total) == (total + PageSize - 1) \div PageSize

\* The ids of the documents a page request returns: rows start+1..start+rows
\* of the index, start = (p - 1) * rows.
PageDocs(p) ==
    LET start == (p - 1) * PageSize
        last  == IF start + PageSize < Len(index) THEN start + PageSize
                 ELSE Len(index)
    IN  [k \in 1..(last - start) |-> start + k]

\* fetch_solr_records up to the submission of the page requests: the rows=0
\* request gives numFound or raises, then one future per page is submitted.
FetchCount ==
    /\ pc = "count"
    /\ IF UrlRefused("SOLR_URL")
       THEN /\ Raise("MissingSchema")
            /\ UNCHANGED <<total_records, pageFut, net>>
       ELSE /\ net' = net \cup {"select"}
            /\ \/ /\ total_records' = Len(index)
                  /\ pageFut' = [p \in 1..NumPages(Len(index)) |-> "pending"]
                  /\ pc' = "pages"
                  /\ UNCHANGED error
               \/ /\ Raise("HTTPError")
                  /\ UNCHANGED <<total_records, pageFut>>
    /\ UNCHANGED env
    /\ UNCHANGED <<mapping_tree, providers, resolveVars, index, joined,
                   records, payload, updFut, ineo_record>>

\* A future leaves the executor's queue in submission order.  The pool has
\* min(32, cpus + 4) workers, more than the requests of a run here, so each
\* queued request finds a free worker.
CanStart(futs, i) ==
    /\ i \in 1..Len(futs)
    /\ futs[i] = "pending"
    /\ \A j \in 1..(i - 1) : futs[j] # "pending"

Finished(futs, i) == futs[i] \in {"ok", "exc"}

\* A worker thread takes the page request p from the queue.
PageStart(p) ==
    /\ CanStart(pageFut, p)
    /\ pageFut' = [pageFut EXCEPT ![p] = "running"]
    /\ net' = net \cup {"select"}
    /\ UNCHANGED env
    /\ UNCHANGED <<mapping_tree, providers, resolveVars, pc, error, index,
                   total_records, joined, records, payload, updFut,
                   ineo_record>>

\* _fetch_solr_records for page p returns, or raise_for_status raises.
PageFinish(p) ==
    /\ p \in 1..Len(pageFut)
    /\ pageFut[p] = "running"
    /\ \E r \in {"ok", "exc"} : pageFut' = [pageFut EXCEPT ![p] = r]
    /\ UNCHANGED <<mapping_tree, providers, resolveVars, pc, error, index,
                   total_records, joined, records, payload, updFut,
                   ineo_record, env, net>>

\* future.result() re-raises the exception of a failed page request.
ResultRaises_Swallowed(p) == FALSE

ResultRaises(p) == pageFut[p] = "exc"

\* One iteration of the as_completed loop: the main thread takes a finished
\* page future; result() raises, or its docs extend records.
JoinPage(p) ==
    /\ pc = "pages"
    /\ p \in 1..Len(pageFut)
    /\ Finished(pageFut, p)
    /\ <<"page", p>> \notin joined
    /\ joined' = joined \cup {<<"page", p>>}
    /\ IF ResultRaises(p)
       THEN /\ pc' = "fetch_unwind"
            /\ UNCHANGED records
       ELSE /\ records' = records \o (IF pageFut[p] = "ok" THEN PageDocs(p)
                                      ELSE <<>>)
            /\ UNCHANGED pc
    /\ UNCHANGED <<mapping_tree, providers, resolveVars, error, index,
                   total_records, pageFut, payload, updFut, ineo_record,
                   env, net>>

\* The exception leaves the with block of fetch_solr_records: the executor's
\* shutdown waits for the page requests still queued or running.
FetchUnwind ==
    /\ pc = "fetch_unwind"
    /\ \A p \in 1..Len(pageFut) : Finished(pageFut, p)
    /\ Raise("HTTPError")
    /\ UNCHANGED <<mapping_tree, providers, resolveVars, index, total_records,
                   pageFut, joined, records, payload, updFut, ineo_record,
                   env, net>>

\* as_completed is exhausted: fetch_solr_records returns records.
FetchReturn_FirstPage ==
    /\ pc = "pages"
    /\ \/ pageFut = <<>>
       \/ \E p \in 1..Len(pageFut) : <<"page", p>> \in joined
    /\ pc' = "label"
    /\ UNCHANGED <<mapping_tree, providers, resolveVars, error, index,
                   total_records, pageFut, joined, records, payload, updFut,
                   ineo_record, env, net>>

FetchReturn ==
    /\ pc = "pages"
    /\ \A p \in 1..Len(pageFut) : <<"page", p>> \in joined
    /\ pc' = "label"
    /\ UNCHANGED <<mapping_tree, providers, resolveVars, error, index,
                   total_records, pageFut, joined, records, payload, updFut,
                   ineo_record, env, net>>

\* One iteration of the loop of _label_ineo_records: the next doc is resolved
\* and its update document appended; an exception of _is_ineo_record is not
\* caught and ends main().
LabelRecord_ByPosition ==
    /\ pc = "label"
    /\ Len(payload) < Len(records)
    /\ LET k == Len(payload) + 1
           r == _is_ineo_record(index[records[k]], providers)
       IN  IF r = "ValueError"
           THEN /\ Raise("ValueError")
                /\ UNCHANGED payload
           ELSE /\ payload' = Append(payload, [id |-> k, ineo_record |-> r])
                /\ UNCHANGED <<pc, error>>
    /\ UNCHANGED <<mapping_tree, providers, resolveVars, index, total_records,
                   pageFut, joined, records, updFut, ineo_record, env, net>>

LabelRecord ==
    /\ pc = "label"
    /\ Len(payload) < Len(records)
    /\ LET id == records[Len(payload) + 1]
           r  == _is_ineo_record(index[id], providers)
       IN  IF r = "ValueError"
           THEN /\ Raise("ValueError")
                /\ UNCHANGED payload
           ELSE /\ payload' = Append(payload, [id |-> id, ineo_record |-> r])
                /\ UNCHANGED <<pc, error>>
    /\ UNCHANGED <<mapping_tree, providers, resolveVars, index, total_records,
                   pageFut, joined, records, updFut, ineo_record, env, net>>

\* _label_ineo_records returns; executor.map submits one update request per
\* update document and its result iterator is dropped.
SubmitUpdates_DropsLast ==
    /\ pc = "label"
    /\ Len(payload) = Len(records)
    /\ updFut' = [i \in 1..(Len(payload) - 1) |-> "pending"]
    /\ pc' = "updating"
    /\ UNCHANGED <<mapping_tree, providers, resolveVars, error, index,
                   total_records, pageFut, joined, records, payload,
                   ineo_record, env, net>>

SubmitUpdates ==
    /\ pc = "label"
    /\ Len(payload) = Len(records)
    /\ updFut' = [i \in 1..Len(payload) |-> "pending"]
    /\ pc' = "updating"
    /\ UNCHANGED <<mapping_tree, providers, resolveVars, error, index,
                   total_records, pageFut, joined, records, payload,
                   ineo_record, env, net>>

\* A worker thread takes the update request i from the queue.
UpdateStart(i) ==
    /\ CanStart(updFut, i)
    /\ updFut' = [updFut EXCEPT ![i] = "running"]
    /\ net' = net \cup {"update"}
    /\ UNCHANGED env
    /\ UNCHANGED <<mapping_tree, providers, resolveVars, pc, error, index,
                   total_records, pageFut, joined, records, payload,
                   ineo_record>>

\* update_solr_records for update document i: the POST sets the field, or
\* raise_for_status raises inside the worker.
UpdateFinish(i) ==
    /\ i \in 1..Len(updFut)
    /\ updFut[i] = "running"
    /\ \/ /\ updFut' = [updFut EXCEPT ![i] = "ok"]
          /\ ineo_record' =
                [ineo_record EXCEPT ![payload[i].id] = payload[i].ineo_record]
       \/ /\ updFut' = [updFut EXCEPT ![i] = "exc"]
          /\ UNCHANGED ineo_record
    /\ UNCHANGED <<mapping_tree, providers, resolveVars, pc, error, index,
                   total_records, pageFut, joined, records, payload, env, net>>

\* The executor's shutdown at the end of the with block of label_ineo_records
\* returns once no update request is queued or running.
UpdatesJoined_FirstFailure ==
    \/ \A i \in 1..Len(updFut) : Finished(updFut, i)
    \/ \E i \in 1..Len(updFut) : updFut[i] = "exc"

UpdatesJoined_NoWait == TRUE

UpdatesJoined == \A i \in 1..Len(updFut) : Finished(updFut, i)

\* label_ineo_records returns and main() logs "Labelling process completed."
Complete ==
    /\ pc = "updating"
    /\ UpdatesJoined
    /\ pc' = "done"
    /\ UNCHANGED <<mapping_tree, providers, resolveVars, error, index,
                   total_records, pageFut, joined, records, payload, updFut,
                   ineo_record, env, net>>

Next ==
    \/ FetchMapping
    \/ ParseMapping
    \/ FetchCount
    \/ \E p \in 1..NumPages(MaxDocs) : PageStart(p)
    \/ \E p \in 1..NumPages(MaxDocs) : PageFinish(p)
    \/ \E p \in 1..NumPages(MaxDocs) : JoinPage(p)
    \/ FetchUnwind
    \/ FetchReturn
    \/ LabelRecord
    \/ SubmitUpdates
    \/ \E i \in 1..MaxDocs : UpdateStart(i)
    \/ \E i \in 1..MaxDocs : UpdateFinish(i)
    \/ Complete

Spec == Init /\ [][Next]_vars

\* The run with its update phase scheduled: the pool's worker threads take
\* queued update requests and run them, every POST returns or raises, and the
\* main thread leaves the with block once it can.
FairSpec ==
    /\ Spec
    /\ WF_vars(\E i \in 1..MaxDocs : UpdateStart(i))
    /\ WF_vars(\E i \in 1..MaxDocs : UpdateFinish(i))
    /\ WF_vars(Complete)

\* ------------------------------------------- properties of the resolver
\* The record was resolved against the parsed registry.
Resolved == rpc = "resolved"

\* The record's provider is the name of a rule of the registry.
Registered ==
    /\ doc.dataProvider # None
    /\ \E k \in 1..Len(providers.providers) :
           providers.providers[k].name = doc.dataProvider

\* The rule the registry returns for the record's provider.
RuleOfDoc == get_provider(providers, doc.dataProvider)

\* The integer a JSON level stands for, as an int or as a string of digits.
JNum(j) == IF j.t = "int" THEN j.n ELSE PyInt(j.s).val

\* The record's level and the rule's level are the same number.
LevelNumEq(j, rule) ==
    j.t # "none" /\ rule.level.has /\ JNum(j) = rule.level.val

\* The record's profile equals the non-null profile of the rule.
ProfileEq(p, rule) == rule.profile # None /\ p = rule.profile

\* C1: a record whose provider's rule has a non-null profile equal to the
\* record's componentProfileId resolves to true, whatever the rule's level
\* and default and the record's hierarchyWeight.
C1_ProfileMatchIsTrue ==
    (Resolved /\ Registered /\ ProfileEq(doc._componentProfileId, RuleOfDoc))
        => result = "True"

\* C1 witness: a profile match on a rule whose default is false and whose
\* level differs from the record's.
C1_Witness ==
    /\ Resolved /\ Registered
    /\ ProfileEq(doc._componentProfileId, RuleOfDoc)
    /\ RuleOfDoc.default = "False"
    /\ RuleOfDoc.level.has
    /\ doc._hierarchyWeight.t = "int"
    /\ ~LevelNumEq(doc._hierarchyWeight, RuleOfDoc)
    /\ result = "True"

\* C2: a record whose hierarchyWeight is numerically equal to the level of its
\* provider's rule, and whose profile does not match, resolves to true, whether
\* the hierarchyWeight is an integer or a string of digits.
C2_LevelMatchIsTrue ==
    (/\ Resolved /\ Registered
     /\ ~ProfileEq(doc._componentProfileId, RuleOfDoc)
     /\ LevelNumEq(doc._hierarchyWeight, RuleOfDoc))
        => result = "True"

\* C3: a record whose provider is present but names no rule resolves to the
\* global default: true when the root has default="true", false otherwise.
C3_UnregisteredIsGlobalDefault ==
    (Resolved /\ doc.dataProvider # None /\ ~Registered)
        => result = (IF mapping_tree.default = "true" THEN "True" ELSE "False")

\* C3 witness: an unregistered provider under a root with default="false",
\* the record carrying a profile and a level that a rule of the registry has.
C3_Witness ==
    /\ Resolved /\ doc.dataProvider # None /\ ~Registered
    /\ mapping_tree.default = "false"
    /\ Len(providers.providers) > 0
    /\ ProfileEq(doc._componentProfileId, providers.providers[1])
    /\ result = "False"

\* C4: registered provider, profile and level both unmatched, rule default D
\* non-null: the record resolves to D, not to the global default.
C4_RuleDefaultApplies ==
    (/\ Resolved /\ Registered
     /\ ~ProfileEq(doc._componentProfileId, RuleOfDoc)
     /\ ~LevelNumEq(doc._hierarchyWeight, RuleOfDoc)
     /\ RuleOfDoc.default # None)
        => result = RuleOfDoc.default

\* C4 witness: the rule default decides and differs from the global default.
C4_Witness ==
    /\ Resolved /\ Registered
    /\ ~ProfileEq(doc._componentProfileId, RuleOfDoc)
    /\ ~LevelNumEq(doc._hierarchyWeight, RuleOfDoc)
    /\ RuleOfDoc.default = "True"
    /\ providers.default = "False"
    /\ result = "True"

\* C5: registered provider whose rule has no default, profile and level both
\* unmatched: the record resolves to false even when the global default is
\* true.
C5_NoDefaultIsFalse ==
    (/\ Resolved /\ Registered
     /\ ~ProfileEq(doc._componentProfileId, RuleOfDoc)
     /\ ~LevelNumEq(doc._hierarchyWeight, RuleOfDoc)
     /\ RuleOfDoc.default = None)
        => result = "False"

\* C5 witness: no rule default, nothing matched, global default true.
C5_Witness ==
    /\ Resolved /\ Registered
    /\ ~ProfileEq(doc._componentProfileId, RuleOfDoc)
    /\ ~LevelNumEq(doc._hierarchyWeight, RuleOfDoc)
    /\ RuleOfDoc.default = None
    /\ providers.default = "True"
    /\ result = "False"

\* C6: a record without dataProvider ends in an error and never in a boolean
\* decision, for any registry.
C6_MissingProviderRaises ==
    (Resolved /\ doc.dataProvider = None) => result = "ValueError"

\* C6 witness: a record without dataProvider resolved against a registry with
\* global default true that holds a rule with a null name.
C6_Witness ==
    /\ Resolved /\ doc.dataProvider = None
    /\ providers.default = "True"
    /\ \E k \in 1..Len(providers.providers) : providers.providers[k].name = None
    /\ result = "ValueError"

\* ------------------------------------------------ properties of the run
\* main() has ended, by returning or by an uncaught exception.
Terminal == pc \in {"done", "failed"}

\* The document id has no dataProvider: _is_ineo_record raises on it.
Unresolvable(id) == index[id].dataProvider = None

\* An update request for document id was submitted to the executor.
Submitted(id) == \E j \in 1..Len(updFut) : payload[j].id = id

\* C7: when a fetched record cannot be resolved (missing dataProvider), no
\* update is submitted for it and every other fetched record still has its
\* update submitted.
C7_UnresolvableRecordIsSkipped ==
    (/\ Terminal
     /\ Len(records) = Len(index)
     /\ \E k \in 1..Len(records) : Unresolvable(records[k]))
        => \A k \in 1..Len(records) :
               Unresolvable(records[k]) <=> ~Submitted(records[k])

\* C8: by the time the run finishes, every failed update has been joined by
\* the run, so that its failure is observed and recorded.
C8_FailedUpdatesAreJoined ==
    pc = "done"
        => \A j \in 1..Len(updFut) :
               updFut[j] = "exc" => <<"update", j>> \in joined

\* C9: when the update of one record fails, the update of every other record
\* of the batch has still been attempted when the run finishes.
C9_FailureSparesSiblings ==
    (pc = "done" /\ \E i \in 1..Len(updFut) : updFut[i] = "exc")
        => /\ Len(updFut) = Len(payload)
           /\ \A j \in 1..Len(updFut) : Finished(updFut, j)

\* C9 witness: a finished run in which an update failed and an update
\* submitted after it succeeded.
C9_Witness ==
    /\ pc = "done"
    /\ \E i, j \in 1..Len(updFut) :
           /\ i < j
           /\ updFut[i] = "exc"
           /\ updFut[j] = "ok"
           /\ ineo_record[payload[j].id] = payload[j].ineo_record

\* C10: once a page request has failed (or a GET of the run, the rows=0
\* request included, has raised), the run is failing: no record is resolved
\* and no update is issued, whatever pages were fetched successfully.
C10_FailedPageFailsFetch ==
    (\/ \E p \in 1..Len(pageFut) : pageFut[p] = "exc"
     \/ error = "HTTPError")
        => /\ pc \in {"pages", "fetch_unwind", "failed"}
           /\ payload = <<>>
           /\ updFut = <<>>
           /\ \A i \in 1..Len(index) : ineo_record[i] = None

\* C10 witness: the run has failed after one page was fetched and merged and
\* another page request failed.
C10_Witness ==
    /\ pc = "failed"
    /\ records # <<>>
    /\ \E p, q \in 1..Len(pageFut) :
           /\ pageFut[p] = "ok"
           /\ <<"page", p>> \in joined
           /\ pageFut[q] = "exc"

\* fetch_solr_records has returned the merged records.
Fetched == pc \in {"label", "updating", "done"}

\* The least n with n * PageSize >= total: ceil(total / PageSize).
CeilPages(total) ==
    CHOOSE n \in 0..total : n * PageSize >= total
                            /\ \A m \in 0..(n - 1) : m * PageSize < total

\* The half-open range [start, min(start + PageSize, total)) of 0-based row
\* offsets that the page request at offset start covers.
PageRange(start, total) ==
    {r \in 0..(total - 1) : start <= r /\ r < start + PageSize}

\* C11: the fetch issues exactly ceil(numFound / PageSize) page requests, at
\* offsets 0, PageSize, 2 PageSize, ... below numFound, whose ranges are
\* disjoint and cover [0, numFound); under every order of page completion the
\* merged records hold each document exactly once, numFound in all.
C11_PagesPartitionTheIndex ==
    (pc \in {"pages", "label", "updating", "done"}
        => /\ Len(pageFut) = CeilPages(total_records)
           /\ \A p \in 1..Len(pageFut) :
                 /\ (p - 1) * PageSize < total_records
                 /\ {id - 1 : id \in {PageDocs(p)[k] : k \in 1..Len(PageDocs(p))}}
                        = PageRange((p - 1) * PageSize, total_records)
           /\ \A r \in 0..(total_records - 1) :
                 Cardinality({p \in 1..Len(pageFut) :
                     r \in PageRange((p - 1) * PageSize, total_records)}) = 1)
    /\ (Fetched
        => /\ Len(records) = total_records
           /\ \A id \in 1..total_records :
                 Cardinality({k \in 1..Len(records) : records[k] = id}) = 1)

\* C11 witness: three documents fetched as a full page and a partial page,
\* the partial page merged first.
C11_Witness ==
    /\ Fetched
    /\ total_records = PageSize + 1
    /\ Len(pageFut) = 2
    /\ records[1] = PageSize + 1
    /\ Len(records) = total_records

\* A required parameter is unset.
ConfigMissing == env # EnvNames

\* A fatal error occurred: a required parameter is unset, a GET of the mapping
\* or of the index raised, or parse_mapping_file raised.
FatalError ==
    \/ ConfigMissing
    \/ error \in {"HTTPError", "MissingSchema"}
    \/ error = "ValueError" /\ ParseRaises(mapping_tree)

\* C12: the run ends in failure exactly when a fatal error occurred; a run
\* whose mapping parse and fetch succeeded ends in success even if records
\* failed resolution or updates failed.  Stated for the runs that have every
\* parameter set; the runs with an unset parameter are the subject of C13.
C12_FailsExactlyOnFatalError ==
    (Terminal /\ ~ConfigMissing) => (pc = "failed" <=> FatalError)

\* C13: when a required parameter is unset the run fails before any network
\* call: no mapping fetch, no index read and no index write.
C13_NoNetworkWithoutConfig ==
    ConfigMissing => (net = {} /\ (Terminal => pc = "failed"))

\* The (id, decision) pairs of the updates the run has submitted.
Produced == {payload[j] : j \in 1..Len(updFut)}

\* The pairs the inputs determine: each document of the index with its
\* decision under the registry parsed from the mapping document.
Determined ==
    {[id |-> i,
      ineo_record |-> _is_ineo_record(index[i], parse_mapping_file(mapping_tree))] :
        i \in 1..Len(index)}

\* C14: the set of (id, decision) pairs the pipeline produces is a function of
\* the mapping document and the index records alone: it is the same for every
\* order in which pages complete and records are processed, hence the same in
\* a second run over unchanged inputs.
C14_DecisionsAreDetermined ==
    IF pc \in {"updating", "done"}
    THEN Produced = Determined
    ELSE Produced = {}

\* C14 witness: a finished run whose pages were merged out of index order and
\* whose decisions are not all the same.
C14_Witness ==
    /\ pc = "done"
    /\ records # <<>>
    /\ records[1] # 1
    /\ \E x, y \in Produced : x.ineo_record # y.ineo_record

\* ------------------------------------------- properties of the registry
\* parse_mapping_file has returned the registry.
Parsed == rpc \in {"resolve", "resolved"}

\* The number of children with the given tag among the first i children.
TagCount(tag, i) ==
    Cardinality({j \in 1..i : mapping_tree.children[j].tag = tag})

\* The place in the rule sequence that the claim gives the i-th child: the
\* provider nodes first, then the root nodes, each kind in document order.
RulePlace(i) ==
    IF mapping_tree.children[i].tag = "provider"
    THEN TagCount("provider", i)
    ELSE TagCount("provider", Len(mapping_tree.children)) + TagCount("root", i)

\* C15: the parsed registry holds one rule per node, all provider nodes in
\* document order followed by all root nodes in document order, for every
\* interleaving of provider and root nodes in the document.
C15_ProvidersThenRoots ==
    Parsed =>
        /\ Len(providers.providers) = Len(mapping_tree.children)
        /\ Len(providers.provider_keys) = Len(mapping_tree.children)
        /\ \A i \in 1..Len(mapping_tree.children) :
              /\ providers.providers[RulePlace(i)]
                    = ProviderOf(mapping_tree.children[i])
              /\ providers.provider_keys[RulePlace(i)]
                    = mapping_tree.children[i].name

\* C15 witness: a root node that precedes a different provider node in the
\* document and follows it in the registry.
C15_Witness ==
    /\ Parsed
    /\ Len(mapping_tree.children) = 2
    /\ mapping_tree.children[1].tag = "root"
    /\ mapping_tree.children[2].tag = "provider"
    /\ mapping_tree.children[1].name # mapping_tree.children[2].name
    /\ providers.providers[1] = ProviderOf(mapping_tree.children[2])
    /\ providers.providers[2] = ProviderOf(mapping_tree.children[1])

\* The children named as the record's provider.
Namesakes ==
    {i \in 1..Len(mapping_tree.children) :
        mapping_tree.children[i].name = doc.dataProvider}

\* The first-inserted of them: the first provider node if there is one, else
\* the first root node.
FirstInserted ==
    CHOOSE i \in Namesakes : \A j \in Namesakes : RulePlace(i) <= RulePlace(j)

\* The decision for the record when child i is the only rule of the registry.
DecisionUnder(i) ==
    _is_ineo_record(doc,
        parse_mapping_file([mapping_tree EXCEPT
                               !.children = <<mapping_tree.children[i]>>]))

\* C16: when two or more rules have the name of the record's provider, the
\* decision is the one the first-inserted rule alone gives; the later rules
\* of that name do not affect it.
C16_FirstRuleDecides ==
    (Resolved /\ doc.dataProvider # None /\ Cardinality(Namesakes) >= 2)
        => result = DecisionUnder(FirstInserted)

\* C16 witness: two rules of the record's provider, the later of which would
\* alone decide the record differently.
C16_Witness ==
    /\ Resolved /\ doc.dataProvider # None
    /\ Cardinality(Namesakes) >= 2
    /\ result = DecisionUnder(FirstInserted)
    /\ \E i \in Namesakes : DecisionUnder(i) # result

\* A node of the mapping document has a level whose text holds a character
\* that no integer literal has.
BadLevel ==
    \E i \in 1..Len(mapping_tree.children) :
        LET level == mapping_tree.children[i].level
        IN  /\ level.has
            /\ \E k \in 1..Len(level.text) :
                   ~IsDigit(level.text[k]) /\ level.text[k] \notin {" ", "+", "-"}

\* C17: when a provider or root node has a level that is not an integer,
\* parsing fails fatally: no registry is produced and the run issues no index
\* read and no index write.
C17_BadLevelIsFatal ==
    BadLevel =>
        /\ providers = EmptyProviders
        /\ pc \in {"fetch_mapping", "parse", "failed"}
        /\ net \cap {"select", "update"} = {}
        /\ pageFut = <<>> /\ updFut = <<>>

\* C17 witness: the mapping was fetched, its level did not parse, and the run
\* has failed with documents waiting in the index.
C17_Witness ==
    /\ BadLevel
    /\ pc = "failed"
    /\ error = "ValueError"
    /\ net = {"mapping"}
    /\ index # <<>>

\* The update requests submitted for document id.
UpdatesOf(id) == {j \in 1..Len(updFut) : payload[j].id = id}

\* C18: in a run where every fetched record resolves, exactly one update is
\* submitted per fetched record, as a request of its own that carries the
\* record's id and its decision; a successful request sets the field of that
\* record to the decision and of no other record.
C18_OneUpdatePerRecord ==
    pc \in {"updating", "done"} =>
        /\ Len(updFut) = Len(index)
        /\ \A id \in 1..Len(index) :
              /\ Cardinality(UpdatesOf(id)) = 1
              /\ \A j \in UpdatesOf(id) :
                    /\ payload[j].ineo_record
                          = _is_ineo_record(index[id], providers)
                    /\ ineo_record[id] =
                          (IF updFut[j] = "ok" THEN payload[j].ineo_record
                           ELSE None)

\* C18 witness: a finished run over two or more records with different
\* decisions, every update of which succeeded.
C18_Witness ==
    /\ pc = "done"
    /\ Len(index) >= 2
    /\ \A j \in 1..Len(updFut) : updFut[j] = "ok"
    /\ \E a, b \in 1..Len(index) : ineo_record[a] = "True" /\ ineo_record[b] = "False"

\* The phases of main() in the order of the code; an exception ends the run
\* from any of them.
PhaseRank(p) ==
    CASE p = "fetch_mapping" -> 0
      [] p = "parse"         -> 1
      [] p = "count"         -> 2
      [] p = "pages"         -> 3
      [] p = "fetch_unwind"  -> 4
      [] p = "label"         -> 5
      [] p = "updating"      -> 6
      [] p = "done"          -> 7
      [] p = "failed"        -> 8

\* An index read was issued only after the mapping was parsed; an update was
\* issued only after every page request completed and every fetched record
\* was resolved.
PhasesInOrder ==
    /\ ("select" \in net \/ pageFut # <<>>)
          => /\ PhaseRank(pc) >= 2
             /\ providers = parse_mapping_file(mapping_tree)
    /\ ("update" \in net \/ updFut # <<>>)
          => /\ PhaseRank(pc) >= 6
             /\ \A p \in 1..Len(pageFut) :
                   pageFut[p] = "ok" /\ <<"page", p>> \in joined
             /\ Len(records) = Len(index)
             /\ Len(payload) = Len(records)

\* No step goes back to an earlier phase or redoes the work of one: the
\* registry is not rebuilt once reads have begun, and no page is requested or
\* merged and no record resolved once updates have been submitted.
PhasesForward ==
    /\ PhaseRank(pc') >= PhaseRank(pc)
    /\ PhaseRank(pc) >= 2 => providers' = providers
    /\ PhaseRank(pc) >= 6
          => /\ pageFut' = pageFut
             /\ records' = records
             /\ payload' = payload

\* C19: the phases are strictly ordered: no index read before the mapping is
\* parsed, no update before every page request has completed and every
\* fetched record is resolved, and no later phase triggers an earlier one.
C19_PhasesStrictlyOrdered == [] PhasesInOrder /\ [][PhasesForward]_vars

\* C19 witness: a finished run that went through every phase: the mapping
\* fetched, two pages read, updates sent.
C19_Witness ==
    /\ pc = "done"
    /\ net = {"mapping", "select", "update"}
    /\ Len(pageFut) >= 2
    /\ updFut # <<>>

\* Every update document was submitted and no update request is queued or
\* running.
NoUpdatePending ==
    /\ Len(updFut) = Len(payload)
    /\ \A j \in 1..Len(updFut) : updFut[j] \in {"ok", "exc"}

====
